---- MODULE Spec2Model ----
(***************************************************************************)
(* Model of the validation core of the tagsinput widgets                   *)
(* (src/tagsinput/tagsinput.py): TagsInput, ColorsInput, FloatsInput and   *)
(* IntsInput.  One widget instance is modelled; its class (kind) is fixed  *)
(* at construction.  The operations are the attribute assignments a host   *)
(* program or the front end can make: value, allowed_tags,                 *)
(* allow_duplicates, min and max.                                          *)
(*                                                                         *)
(* Python values are modelled as records [t, s, n]:                        *)
(*   Str(s)  a str,  Num(n) a number whose value is n / Scale (fixed       *)
(*   point, so that fractional numbers exist), None the Python None.       *)
(* Python's == on these values is record equality (1 == 1.0 holds in       *)
(* Python, and both are Num(Scale) here; a str never equals a number).     *)
(***************************************************************************)
EXTENDS Integers, Sequences, FiniteSets

(* Longest list assigned to value or to allowed_tags. *)
MaxLen == 2

(* Fixed-point resolution: Num(n) stands for the number n / Scale. *)
Scale == 2

VARIABLES kind, value, allowed_tags, allow_duplicates, min, max,
          op, proposal, outcome

vars == <<kind, value, allowed_tags, allow_duplicates, min, max,
          op, proposal, outcome>>

----------------------------------------------------------------------------
(* Python values *)

None == [t |-> "none", s |-> "", n |-> 0]

Str(x) == [t |-> "str", s |-> x, n |-> 0]

Num(x) == [t |-> "num", s |-> "", n |-> x]

Range(q) == {q[i] : i \in 1..Len(q)}

SeqsUpTo(S, k) == UNION {[1..j -> S] : j \in 0..k}

IsIntegral(x) == x % Scale = 0

(* int(x) on a number: truncation toward zero. *)
Trunc(x) == IF x >= 0 THEN (x \div Scale) * Scale
                      ELSE -(((-x) \div Scale) * Scale)

----------------------------------------------------------------------------
(* The widget classes *)

Kinds == {"TagsInput", "ColorsInput", "FloatsInput", "IntsInput"}

NumericKinds == {"FloatsInput", "IntsInput"}

(* Colour names the Color trait recognises (two of them), as used by       *)
(* value = List(Color()).                                                  *)
ColorNames == {"red", "blue"}

(* Result of a trait's validate(): the coerced value, or a TraitError. *)
Ok(v) == [err |-> "ok", value |-> v]

Raise(e) == [err |-> e, value |-> None]

(* Unicode(): a str is kept as it is, anything else is a TraitError. *)
Unicode(e) == IF e.t = "str" THEN Ok(e) ELSE Raise("type")

(* Color(): a str that is a well-formed colour, else a TraitError. *)
Color(e) == IF e.t = "str" /\ e.s \in ColorNames THEN Ok(e) ELSE Raise("type")

(* CFloat(): float(x); float('') and float('a') raise, which the trait     *)
(* turns into a TraitError.                                                *)
CFloat(e) == IF e.t = "num" THEN Ok(e) ELSE Raise("type")

(* A CInt that refuses a number with a fractional part. *)
CInt_strict(e) ==
    IF e.t = "num" /\ IsIntegral(e.n) THEN Ok(e) ELSE Raise("type")

(* CInt(): int(x), which truncates a number toward zero; int('') raises. *)
CInt(e) == IF e.t = "num" THEN Ok(Num(Trunc(e.n))) ELSE Raise("type")

(* The element trait of value, per class. *)
ElementTrait(k, e) ==
    CASE k = "TagsInput"   -> Unicode(e)
      [] k = "ColorsInput" -> Color(e)
      [] k = "FloatsInput" -> CFloat(e)
      [] k = "IntsInput"   -> CInt(e)

(* The trait of min and max, per numeric class; allow_none=True. *)
BoundTrait(k, e) ==
    IF e = None THEN Ok(None)
    ELSE IF k = "IntsInput" THEN CInt(e) ELSE CFloat(e)

(* List(trait) validates and coerces every element; the first element the  *)
(* trait refuses makes the whole list a TraitError.                        *)
ValidateElements(k, p) ==
    IF \E i \in 1..Len(p) : ElementTrait(k, p[i]).err # "ok"
    THEN [err |-> "type", value |-> <<>>]
    ELSE [err |-> "ok", value |-> [i \in 1..Len(p) |-> ElementTrait(k, p[i]).value]]

----------------------------------------------------------------------------
(* The cross-validators of value *)

Accept(p) == [err |-> "ok", value |-> p]

Reject(e) == [err |-> e, value |-> <<>>]

(* _validate_value without the blank rule. *)
_validate_value_noblank(allowed, dup, p) ==
    IF Len(allowed) = 0 THEN Accept(p)
    ELSE IF \E i \in 1..Len(p) : p[i] \notin Range(allowed)
         THEN Reject("not_allowed")
         ELSE Accept(p)

(* _validate_value whose allow-list loop stops after the first tag. *)
_validate_value_first(allowed, dup, p) ==
    IF Str("") \in Range(p) THEN Reject("blank")
    ELSE IF Len(allowed) = 0 THEN Accept(p)
    ELSE IF Len(p) > 0 /\ p[1] \notin Range(allowed)
         THEN Reject("not_allowed")
         ELSE Accept(p)

(* The list without the later occurrences of a tag. *)
Dedup(p) ==
    LET F[i \in 0..Len(p)] ==
            IF i = 0 THEN <<>>
            ELSE IF p[i] \in Range(F[i - 1]) THEN F[i - 1]
                 ELSE Append(F[i - 1], p[i])
    IN  F[Len(p)]

(* _validate_value that drops duplicates when allow_duplicates is False. *)
_validate_value_dedup(allowed, dup, p) ==
    IF Str("") \in Range(p) THEN Reject("blank")
    ELSE IF Len(allowed) # 0 /\ \E i \in 1..Len(p) : p[i] \notin Range(allowed)
         THEN Reject("not_allowed")
         ELSE Accept(IF dup THEN p ELSE Dedup(p))

(* TagsInputBase._validate_value: the blank rule, then the allow-list      *)
(* rule.  p is the list after element coercion; self.allow_duplicates is   *)
(* in scope (dup) and is not read.                                         *)
_validate_value(allowed, dup, p) ==
    IF Str("") \in Range(p) THEN Reject("blank")
    ELSE IF Len(allowed) = 0 THEN Accept(p)
    ELSE IF \E i \in 1..Len(p) : p[i] \notin Range(allowed)
         THEN Reject("not_allowed")
         ELSE Accept(p)

(* NumbersInputBase._validate_numbers: the inclusive range rule. *)
_validate_numbers(mn, mx, p) ==
    IF \E i \in 1..Len(p) : \/ (mn # None /\ p[i].n < mn.n)
                            \/ (mx # None /\ p[i].n > mx.n)
    THEN Reject("range")
    ELSE Accept(p)

(* The @validate('value') handlers a class holds, in the order in which    *)
(* traitlets runs their instance_init: the order of the sorted member      *)
(* names of the class (dir(cls)), so _validate_numbers comes before        *)
(* _validate_value.                                                        *)
ValueValidators(k) ==
    IF k \in NumericKinds THEN <<"_validate_numbers", "_validate_value">>
                          ELSE <<"_validate_value">>

(* Each instance_init stores its handler in _trait_validators['value'],    *)
(* one slot per trait name: the handler registered last is the one kept.   *)
RegisteredValidator(k) == ValueValidators(k)[Len(ValueValidators(k))]

(* TraitType._cross_validate: calls the one registered handler. *)
CrossValidate(k, allowed, dup, mn, mx, p) ==
    CASE RegisteredValidator(k) = "_validate_value"
           -> _validate_value(allowed, dup, p)
      [] RegisteredValidator(k) = "_validate_numbers"
           -> _validate_numbers(mn, mx, p)

(* What an assignment widget.value = p yields: element validation and      *)
(* coercion by the List trait, then the cross-validator on the coerced     *)
(* list.                                                                   *)
SetValueResult(k, allowed, dup, mn, mx, p) ==
    LET el == ValidateElements(k, p)
    IN  IF el.err # "ok" THEN el
        ELSE CrossValidate(k, allowed, dup, mn, mx, el.value)

----------------------------------------------------------------------------
(* Inputs *)

(* Elements proposed for value: per class, the empty string, two elements  *)
(* of the element type and (TagsInput, ColorsInput) one element that is    *)
(* not of the element type.                                                *)
RawElems(k) ==
    CASE k = "TagsInput"   -> {Str(""), Str("a"), Str("b"), Num(Scale)}
      [] k = "ColorsInput" -> {Str(""), Str("red"), Str("blue"), Str("a")}
      [] OTHER             -> {Str(""), Num(-1), Num(Scale)}

AllowElems(k) ==
    CASE k = "TagsInput"   -> {Str("a"), Str("b")}
      [] k = "ColorsInput" -> {Str("red"), Str("a")}
      [] OTHER             -> {Num(0), Num(Scale)}

(* Allow-lists given to allowed_tags: lists that name each tag once. *)
AllowLists(k) ==
    {l \in SeqsUpTo(AllowElems(k), MaxLen) :
        \A i, j \in 1..Len(l) : l[i] = l[j] => i = j}

(* Values given to min and max: None, a str, a negative fractional number. *)
BoundInputs == {None, Str(""), Num(-1)}

----------------------------------------------------------------------------
(* The widget *)

Init ==
    /\ kind \in Kinds
    /\ value = <<>>
    /\ allowed_tags = <<>>
    /\ allow_duplicates = TRUE
    /\ min = None
    /\ max = None
    /\ op = "init"
    /\ proposal = <<>>
    /\ outcome = "ok"

(* An assignment that, when rejected, keeps the tags that came before the  *)
(* offending one.                                                          *)
SetValue_partial ==
    \E p \in SeqsUpTo(RawElems(kind), MaxLen) :
        LET Res(q) == SetValueResult(kind, allowed_tags, allow_duplicates,
                                     min, max, q)
            good == {j \in 0..Len(p) : Res(SubSeq(p, 1, j)).err = "ok"}
            best == CHOOSE j \in good : \A i \in good : i <= j
        IN  /\ value' = Res(SubSeq(p, 1, best)).value
            /\ op' = "set_value"
            /\ proposal' = p
            /\ outcome' = Res(p).err
            /\ UNCHANGED <<kind, allowed_tags, allow_duplicates, min, max>>

(* widget.value = p *)
SetValue ==
    \E p \in SeqsUpTo(RawElems(kind), MaxLen) :
        LET res == SetValueResult(kind, allowed_tags, allow_duplicates,
                                  min, max, p)
        IN  /\ value' = IF res.err = "ok" THEN res.value ELSE value
            /\ op' = "set_value"
            /\ proposal' = p
            /\ outcome' = res.err
            /\ UNCHANGED <<kind, allowed_tags, allow_duplicates, min, max>>

(* widget.allowed_tags = l : a plain List(), no validator. *)
SetAllowedTags ==
    \E l \in AllowLists(kind) :
        /\ allowed_tags' = l
        /\ op' = "set_allowed_tags"
        /\ proposal' = l
        /\ outcome' = "ok"
        /\ UNCHANGED <<kind, value, allow_duplicates, min, max>>

(* widget.allow_duplicates = b *)
SetAllowDuplicates ==
    \E b \in BOOLEAN :
        /\ allow_duplicates' = b
        /\ op' = "set_allow_duplicates"
        /\ proposal' = <<>>
        /\ outcome' = "ok"
        /\ UNCHANGED <<kind, value, allowed_tags, min, max>>

(* widget.min = x, on the numeric classes *)
SetMin ==
    /\ kind \in NumericKinds
    /\ \E x \in BoundInputs :
        LET res == BoundTrait(kind, x)
        IN  /\ min' = IF res.err = "ok" THEN res.value ELSE min
            /\ op' = "set_min"
            /\ proposal' = <<x>>
            /\ outcome' = res.err
            /\ UNCHANGED <<kind, value, allowed_tags, allow_duplicates, max>>

(* widget.max = x, on the numeric classes *)
SetMax ==
    /\ kind \in NumericKinds
    /\ \E x \in BoundInputs :
        LET res == BoundTrait(kind, x)
        IN  /\ max' = IF res.err = "ok" THEN res.value ELSE max
            /\ op' = "set_max"
            /\ proposal' = <<x>>
            /\ outcome' = res.err
            /\ UNCHANGED <<kind, value, allowed_tags, allow_duplicates, min>>

Next == SetValue \/ SetAllowedTags \/ SetAllowDuplicates \/ SetMin \/ SetMax

Spec == Init /\ [][Next]_vars

----------------------------------------------------------------------------
(* Properties *)

ValueKinds == {"TagsInput", "ColorsInput"}

(* An element of the widget's own element type: a str for TagsInput, a     *)
(* well-formed colour for ColorsInput, a number for the numeric classes.   *)
OfElementType(k, e) ==
    CASE k = "TagsInput"   -> e.t = "str"
      [] k = "ColorsInput" -> e.t = "str" /\ e.s \in ColorNames
      [] OTHER             -> e.t = "num"

(* C1: all-or-nothing rejection.  A step that is a rejected assignment to  *)
(* value leaves value, allowed_tags, allow_duplicates, min and max as they *)
(* were; no prefix or subset of the proposed list is applied.              *)
C1_AllOrNothing ==
    [][(op' = "set_value" /\ outcome' # "ok")
         => /\ value' = value
            /\ allowed_tags' = allowed_tags
            /\ allow_duplicates' = allow_duplicates
            /\ min' = min
            /\ max' = max]_vars

(* A rejected two-element assignment whose first element is acceptable on  *)
(* its own, made on a widget that holds another, non-empty value.          *)
C1_Witness ==
    /\ op = "set_value"
    /\ outcome \in {"blank", "not_allowed"}
    /\ Len(proposal) = 2
    /\ SetValueResult(kind, allowed_tags, allow_duplicates, min, max,
                      <<proposal[1]>>).err = "ok"
    /\ value # <<>>
    /\ value # <<proposal[1]>>

(* C2: blank rule on every variant.  An assignment to value of a list that *)
(* contains the empty string is rejected, whatever the class and whatever  *)
(* allowed_tags, min and max are; so value never contains the empty        *)
(* string.                                                                 *)
C2_BlankRule ==
    /\ Str("") \notin Range(value)
    /\ (op = "set_value" /\ Str("") \in Range(proposal)) => outcome # "ok"

(* The blank rule itself has rejected a list, on a widget whose allow-list *)
(* holds every non-blank element of that list.                             *)
C2_Witness ==
    /\ op = "set_value"
    /\ outcome = "blank"
    /\ Len(proposal) = 2
    /\ allowed_tags # <<>>
    /\ \A e \in Range(proposal) : e = Str("") \/ e \in Range(allowed_tags)
    /\ value # <<>>

(* C3 as stated: on TagsInput and ColorsInput, every proposed list with no *)
(* empty string is accepted iff allowed_tags is empty or every element of  *)
(* the list is in allowed_tags.                                            *)
C3_Original ==
    (op = "set_value" /\ kind \in ValueKinds /\ Str("") \notin Range(proposal))
      => (outcome = "ok" <=> \/ allowed_tags = <<>>
                             \/ Range(proposal) \subseteq Range(allowed_tags))

(* C3 amended: the same decision, for the proposed lists whose elements    *)
(* are all of the widget's element type (strs for TagsInput, well-formed   *)
(* colours for ColorsInput).                                               *)
C3_AllowListDecision ==
    (/\ op = "set_value"
     /\ kind \in ValueKinds
     /\ Str("") \notin Range(proposal)
     /\ \A e \in Range(proposal) : OfElementType(kind, e))
      => (outcome = "ok" <=> \/ allowed_tags = <<>>
                             \/ Range(proposal) \subseteq Range(allowed_tags))

(* A list of two colours rejected by a non-empty allow-list that holds its *)
(* first element and not its second.                                       *)
C3_Witness ==
    /\ op = "set_value"
    /\ kind = "ColorsInput"
    /\ allowed_tags # <<>>
    /\ Len(proposal) = 2
    /\ \A e \in Range(proposal) : OfElementType(kind, e)
    /\ proposal[1] \in Range(allowed_tags)
    /\ proposal[2] \notin Range(allowed_tags)
    /\ outcome = "not_allowed"

(* x / Scale truncated toward zero is y / Scale, stated without Trunc. *)
IsTruncationOf(y, x) ==
    /\ y % Scale = 0
    /\ x >= 0 => (y <= x /\ x < y + Scale)
    /\ x < 0  => (y >= x /\ x > y - Scale)

OutOfRange(e) ==
    \/ (min # None /\ e.n < min.n)
    \/ (max # None /\ e.n > max.n)

(* C4 as stated: on FloatsInput and IntsInput an assignment to value of a  *)
(* list of numbers is rejected iff some element is below min (when set) or *)
(* above max (when set).  Stated for a widget with no allow-list, where    *)
(* the range rule is the only rule that can reject a list of numbers.      *)
C4_RangeDecision ==
    (/\ op = "set_value"
     /\ kind \in NumericKinds
     /\ allowed_tags = <<>>
     /\ \A e \in Range(proposal) : e.t = "num")
      => (outcome # "ok"
            <=> \E e \in Range(proposal) : OutOfRange(ElementTrait(kind, e).value))

(* C5 as stated: in every reachable state, assigning to value the list it  *)
(* holds succeeds and leaves value as it is.                               *)
C5_Reassignable ==
    SetValueResult(kind, allowed_tags, allow_duplicates, min, max, value)
      = Accept(value)

(* C6 as stated: in every reachable state, if allowed_tags is non-empty,   *)
(* every element of value is a member of allowed_tags.                     *)
C6_AllowListInvariant ==
    allowed_tags # <<>> => Range(value) \subseteq Range(allowed_tags)

(* C7 as stated: on FloatsInput and IntsInput, in every reachable state,   *)
(* every element of value is >= min when min is set and <= max when max is *)
(* set.                                                                    *)
C7_RangeInvariant ==
    kind \in NumericKinds => \A e \in Range(value) : ~OutOfRange(e)

IsFractional(e) == e.t = "num" /\ e.n % Scale # 0

(* C9 as stated: IntsInput rejects an assignment to value whose list holds *)
(* a non-integer-valued number, and rejects the assignment of a            *)
(* non-integer-valued number to min or max.                                *)
C9_Original ==
    kind = "IntsInput"
      => /\ (op = "set_value" /\ \E e \in Range(proposal) : IsFractional(e))
              => outcome # "ok"
         /\ (op \in {"set_min", "set_max"} /\ IsFractional(proposal[1]))
              => outcome # "ok"

(* C9 amended: IntsInput narrows by coercion, not by rejection.  Its       *)
(* value, min and max hold integers only; a number assigned to min or max  *)
(* is accepted and stored truncated toward zero; a list of numbers         *)
(* assigned to value of a widget with no allow-list and no bounds is       *)
(* accepted, fractional elements included.  FloatsInput accepts fractional *)
(* elements and bounds and stores them as they are.                        *)
C9_IntNarrowing ==
    /\ kind = "IntsInput"
         => /\ \A e \in Range(value) : e.t = "num" /\ ~IsFractional(e)
            /\ min = None \/ (min.t = "num" /\ ~IsFractional(min))
            /\ max = None \/ (max.t = "num" /\ ~IsFractional(max))
    /\ (kind \in NumericKinds /\ op \in {"set_min", "set_max"}
          /\ proposal[1].t = "num")
         => LET b == IF op = "set_min" THEN min ELSE max
            IN  /\ outcome = "ok"
                /\ b.t = "num"
                /\ IF kind = "IntsInput"
                   THEN IsTruncationOf(b.n, proposal[1].n)
                   ELSE b = proposal[1]
    /\ (/\ kind \in NumericKinds
        /\ op = "set_value"
        /\ allowed_tags = <<>> /\ min = None /\ max = None
        /\ \A e \in Range(proposal) : e.t = "num")
         => /\ outcome = "ok"
            /\ kind = "FloatsInput" => value = proposal

(* An IntsInput that accepted a list holding a negative fractional number  *)
(* and holds a fractional number's truncation as its min.                  *)
C9_Witness ==
    /\ kind = "IntsInput"
    /\ op = "set_value"
    /\ outcome = "ok"
    /\ \E e \in Range(proposal) : IsFractional(e) /\ e.n < 0
    /\ value # proposal
    /\ min # None

(* C10 as stated: on FloatsInput and IntsInput the base validator runs and *)
(* then the range validator, so a list is accepted only if it passes the   *)
(* blank rule, the allow-list rule and the range rule together, and a list *)
(* that breaks both the allow-list and a bound is rejected with the        *)
(* allow-list failure.                                                     *)
C10_Composition ==
    (kind \in NumericKinds /\ op = "set_value")
      => /\ outcome = "ok"
              => /\ Str("") \notin Range(value)
                 /\ allowed_tags = <<>> \/ Range(value) \subseteq Range(allowed_tags)
                 /\ \A e \in Range(value) : ~OutOfRange(e)
         /\ (/\ \A e \in Range(proposal) : e.t = "num"
             /\ allowed_tags # <<>>
             /\ \E e \in Range(proposal) :
                    ElementTrait(kind, e).value \notin Range(allowed_tags)
             /\ \E e \in Range(proposal) : OutOfRange(ElementTrait(kind, e).value))
              => outcome = "not_allowed"

====
